---- MODULE Spec2Model ----
(***************************************************************************)
(* A model of the three command-line utilities of the repository:          *)
(*   flac_to_mp3_320kbps.py      the batch audio converter                  *)
(*   extract_clip_lossless.py    the stream-copy clip extractor             *)
(*   extract_clip_h264_aac_sdr.py the re-encoding clip extractor            *)
(* The utilities share no state.  Each has its own variables, its own      *)
(* initial condition and its own specification; while one utility runs,    *)
(* the variables of the other two rest at their idle values.               *)
(*                                                                         *)
(* Strings are Python strings.  Exit codes are process exit codes.         *)
(***************************************************************************)
EXTENDS Integers, Sequences, FiniteSets, TLC

VARIABLES
    \* ---- flac_to_mp3_320kbps.py
    tree,        \* the source files under input_dir
    ffmpegOk,    \* whether the ffmpeg executable can be spawned
    pending,     \* files os.walk has not yielded yet
    out,         \* the output tree: target path -> content
    outDirs,     \* directories that exist under output_dir
    bpc,         \* position of convert()
    cur,         \* the file of the current loop iteration
    res,         \* what subprocess.run came back with
    invoked,     \* files ffmpeg_convert was called for
    skipped,     \* files skipped because their target existed
    succeeded,   \* files whose conversion was reported successful
    failed,      \* files whose tool run exited non-zero
    berr,        \* the exception that ended the run, if any
    \* ---- extract_clip_lossless.py
    largs,       \* the command line, as argparse sees it
    lpc,         \* position of main()
    lcmd,        \* the argument list built by build_ffmpeg_command
    lspawned,    \* whether subprocess.run(cmd) was called
    ltoolrc,     \* the tool's return code
    lexit,       \* the script's process exit code
    lerr,        \* why the run ended
    \* ---- extract_clip_h264_aac_sdr.py
    argv,        \* sys.argv[1:]
    rpc,         \* position of main()
    ropts,       \* start_time, end_time, duration, output_file
    file_info,   \* what get_file_info returned
    streams,     \* what split_streams returned
    video_stream,\* what the search for the video stream left: <<>> is None
    hdrCalled,   \* whether is_hdr was called
    hdr,         \* what is_hdr returned
    rcmd,        \* the argument list built by run_ffmpeg
    rspawned,    \* whether subprocess.run(cmd) was called
    rtoolrc,     \* the tool's return code
    rexit,       \* the script's process exit code
    rerr         \* the exception that ended the run, if any

bvars == <<tree, ffmpegOk, pending, out, outDirs, bpc, cur, res, invoked,
           skipped, succeeded, failed, berr>>
lvars == <<largs, lpc, lcmd, lspawned, ltoolrc, lexit, lerr>>
rvars == <<argv, rpc, ropts, file_info, streams, video_stream, hdrCalled, hdr, rcmd,
           rspawned, rtoolrc, rexit, rerr>>
vars == <<bvars, lvars, rvars>>

\* Python's None, where a string is expected.
None == "<None>"

(***************************************************************************)
(* Python string operations                                                *)
(***************************************************************************)
Char(s, i) == SubSeq(s, i, i)

UpperLetters == "ABCDEFGHIJKLMNOPQRSTUVWXYZ"
LowerLetters == "abcdefghijklmnopqrstuvwxyz"

\* str.lower() on one character
LowerChar(c) ==
    IF \E i \in 1..Len(UpperLetters) : Char(UpperLetters, i) = c
    THEN Char(LowerLetters, CHOOSE i \in 1..Len(UpperLetters) : Char(UpperLetters, i) = c)
    ELSE c

RECURSIVE StrLower(_)
StrLower(s) == IF s = "" THEN "" ELSE LowerChar(Head(s)) \o StrLower(Tail(s))

\* str.endswith
EndsWith(s, suf) ==
    /\ Len(s) >= Len(suf)
    /\ SubSeq(s, Len(s) - Len(suf) + 1, Len(s)) = suf

\* str.startswith
StartsWith(s, pre) ==
    /\ Len(s) >= Len(pre)
    /\ SubSeq(s, 1, Len(pre)) = pre

\* the `in` operator on strings
Contains(s, sub) ==
    \E i \in 1..(Len(s) - Len(sub) + 1) : SubSeq(s, i, i + Len(sub) - 1) = sub

\* str.find: the first index (1-based) of character c, 0 when absent
Find(s, c) ==
    IF Contains(s, c)
    THEN CHOOSE i \in 1..Len(s) :
            /\ Char(s, i) = c
            /\ \A j \in 1..(i - 1) : Char(s, j) # c
    ELSE 0

\* str.rfind: the last index (1-based) of character c, 0 when absent
RFind(s, c) ==
    IF Contains(s, c)
    THEN CHOOSE i \in 1..Len(s) :
            /\ Char(s, i) = c
            /\ \A j \in (i + 1)..Len(s) : Char(s, j) # c
    ELSE 0

IsSpace(c) == c \in {" ", "\t"}

RECURSIVE LStrip(_)
LStrip(s) == IF s # "" /\ IsSpace(Head(s)) THEN LStrip(Tail(s)) ELSE s

RECURSIVE RStrip(_)
RStrip(s) ==
    IF s # "" /\ IsSpace(Char(s, Len(s))) THEN RStrip(SubSeq(s, 1, Len(s) - 1)) ELSE s

\* str.strip()
Strip(s) == RStrip(LStrip(s))

\* str.replace(a, b) for a single character a
RECURSIVE Replace(_, _, _)
Replace(s, a, b) ==
    IF s = "" THEN ""
    ELSE (IF Head(s) = a THEN b ELSE Head(s)) \o Replace(Tail(s), a, b)

\* str.split(sep) for a single character sep
RECURSIVE Split(_, _)
Split(s, sep) ==
    IF Find(s, sep) = 0 THEN <<s>>
    ELSE <<SubSeq(s, 1, Find(s, sep) - 1)>> \o Split(SubSeq(s, Find(s, sep) + 1, Len(s)), sep)

(***************************************************************************)
(* Python number parsing.  A time is an integer number of milliseconds:    *)
(* the inputs of the model carry at most three fractional digits, and      *)
(* their fractions are halves, so float arithmetic on them is exact.       *)
(***************************************************************************)
DecimalDigits == "0123456789"

IsDigit(c) == Len(c) = 1 /\ Contains(DecimalDigits, c)

IsDigits(s) == s # "" /\ \A i \in 1..Len(s) : IsDigit(Char(s, i))

RECURSIVE DigitsValue(_)
DigitsValue(s) ==
    IF s = "" THEN 0
    ELSE 10 * DigitsValue(SubSeq(s, 1, Len(s) - 1)) + (Find(DecimalDigits, Char(s, Len(s))) - 1)

\* the text after an optional sign
Unsigned(s) == IF s # "" /\ Head(s) \in {"+", "-"} THEN Tail(s) ELSE s

SignOf(s) == IF s # "" /\ Head(s) = "-" THEN -1 ELSE 1

\* int(s): surrounding blanks, an optional sign, decimal digits
PyInt(s) ==
    LET t == Strip(s)
    IN  IF IsDigits(Unsigned(t))
        THEN [ok |-> TRUE, val |-> SignOf(t) * DigitsValue(Unsigned(t))]
        ELSE [ok |-> FALSE, val |-> 0]

\* the first three fractional digits as milliseconds
FractionMs(d) == DigitsValue(SubSeq(d \o "000", 1, 3))

\* float(s): surrounding blanks, an optional sign, digits with an optional
\* fraction ("12", "12.5", "12.", ".5"); the value in milliseconds
PyFloat(s) ==
    LET t    == Strip(s)
        u    == Unsigned(t)
        dot  == Find(u, ".")
        ip   == IF dot = 0 THEN u ELSE SubSeq(u, 1, dot - 1)
        fp   == IF dot = 0 THEN "" ELSE SubSeq(u, dot + 1, Len(u))
        good == /\ ip = "" \/ IsDigits(ip)
                /\ fp = "" \/ IsDigits(fp)
                /\ ip # "" \/ fp # ""
    IN  IF good
        THEN [ok |-> TRUE, ms |-> SignOf(t) * (1000 * DigitsValue(ip) + FractionMs(fp))]
        ELSE [ok |-> FALSE, ms |-> 0]

(***************************************************************************)
(* flac_to_mp3_320kbps.py                                                  *)
(***************************************************************************)
\* The largest number of files in the input tree.
MaxFiles == 3

\* The files an input tree is drawn from: dir is the directory relative to
\* input_dir, name the file name.
SourceFiles ==
    { [dir |-> ".",   name |-> "a.flac"],
      [dir |-> ".",   name |-> "a.FLAC"],
      [dir |-> ".",   name |-> "b.Flac"],
      [dir |-> ".",   name |-> "cover.jpg"],
      [dir |-> "sub", name |-> "a.flac"] }

NoFile == [dir |-> "", name |-> ""]

\* file.lower().endswith('.flac')
IsFlac(f) == EndsWith(StrLower(f.name), ".flac")

\* os.path.splitext(file)[0]: the name up to its last dot, leading dots aside
SplitextRoot(name) ==
    LET stripped == IF StartsWith(name, ".") THEN Tail(name) ELSE name
        dot      == RFind(stripped, ".")
        lead     == Len(name) - Len(stripped)
    IN  IF dot = 0 THEN name ELSE SubSeq(name, 1, lead + dot - 1)

\* mp3_path: the mirrored path under output_dir
Mp3Path(f) == [dir |-> f.dir, name |-> SplitextRoot(f.name) \o ".mp3"]

TargetPaths == { Mp3Path(f) : f \in { g \in SourceFiles : IsFlac(g) } }

\* File contents in the output tree.
Absent == "absent"
Old == "old"
PartialOf(f) == "partial:" \o f.dir \o "/" \o f.name
Mp3Of(f) == "mp3:" \o f.dir \o "/" \o f.name

\* os.path.exists(mp3_path)
Exists(fs, p) == fs[p] # Absent

\* os.walk is top-down: the files of input_dir before those of its
\* subdirectories; the order within a directory is the file system's.
WalkYields(f) ==
    /\ f \in pending
    /\ f.dir = "." \/ \A g \in pending : g.dir # "."

\* bytes.decode() of the tool's stderr: strict UTF-8
Decodable(stderr) == stderr = "utf8"

LosslessIdle ==
    /\ largs = [help |-> FALSE]
    /\ lpc = "idle"
    /\ lcmd = <<>>
    /\ lspawned = FALSE
    /\ ltoolrc = 0
    /\ lexit = 0
    /\ lerr = ""

ReencodeIdle ==
    /\ argv = <<>>
    /\ rpc = "idle"
    /\ ropts = [start_time |-> None, end_time |-> None, duration |-> None, output_file |-> None]
    /\ file_info = [found |-> FALSE, lines |-> <<>>]
    /\ streams = <<>>
    /\ video_stream = <<>>
    /\ hdrCalled = FALSE
    /\ hdr = FALSE
    /\ rcmd = <<>>
    /\ rspawned = FALSE
    /\ rtoolrc = 0
    /\ rexit = 0
    /\ rerr = ""

BatchIdle ==
    /\ tree = {}
    /\ ffmpegOk = TRUE
    /\ pending = {}
    /\ out = [p \in TargetPaths |-> Absent]
    /\ outDirs = {}
    /\ bpc = "idle"
    /\ cur = NoFile
    /\ res = [rc |-> 0, stderr |-> "utf8"]
    /\ invoked = {}
    /\ skipped = {}
    /\ succeeded = {}
    /\ failed = {}
    /\ berr = ""

\* The state when main() calls convert(input_dir, output_dir).
BatchInit ==
    /\ tree \in { t \in SUBSET SourceFiles : Cardinality(t) <= MaxFiles }
    /\ ffmpegOk \in BOOLEAN
    /\ pending = tree
    /\ out \in [TargetPaths -> {Absent, Old}]
    /\ outDirs \in { D \in SUBSET {".", "sub"} :
                        /\ { p.dir : p \in { q \in TargetPaths : out[q] # Absent } } \subseteq D
                        /\ D # {} => "." \in D }
    /\ bpc = "start"
    /\ cur = NoFile
    /\ res = [rc |-> 0, stderr |-> "utf8"]
    /\ invoked = {}
    /\ skipped = {}
    /\ succeeded = {}
    /\ failed = {}
    /\ berr = ""
    /\ LosslessIdle
    /\ ReencodeIdle

\* convert(), lines 33-34: create output_dir
ConvertBegin ==
    /\ bpc = "start"
    /\ outDirs' = outDirs \cup {"."}
    /\ bpc' = "walk"
    /\ UNCHANGED <<tree, ffmpegOk, pending, out, cur, res, invoked, skipped,
                   succeeded, failed, berr>>
    /\ UNCHANGED <<lvars, rvars>>

\* a file that is not a .flac file: the loop goes on
WalkOther(f) ==
    /\ bpc = "walk"
    /\ WalkYields(f)
    /\ ~IsFlac(f)
    /\ pending' = pending \ {f}
    /\ UNCHANGED <<tree, ffmpegOk, out, outDirs, bpc, cur, res, invoked,
                   skipped, succeeded, failed, berr>>
    /\ UNCHANGED <<lvars, rvars>>

\* A loop body that skips only targets left by an earlier run.
SkipsOnlyOld(fs, p) == fs[p] = Old

\* convert(), line 49: whether the loop body skips the file whose target is
\* mp3_path
SkipsExisting(fs, p) == Exists(fs, p)

\* a .flac file whose target exists: skipped
WalkSkip(f) ==
    /\ bpc = "walk"
    /\ WalkYields(f)
    /\ IsFlac(f)
    /\ SkipsExisting(out, Mp3Path(f))
    /\ pending' = pending \ {f}
    /\ outDirs' = outDirs \cup {f.dir}
    /\ skipped' = skipped \cup {f}
    /\ UNCHANGED <<tree, ffmpegOk, out, bpc, cur, res, invoked, succeeded,
                   failed, berr>>
    /\ UNCHANGED <<lvars, rvars>>

\* a .flac file whose target does not exist: ffmpeg_convert is called
WalkConvert(f) ==
    /\ bpc = "walk"
    /\ WalkYields(f)
    /\ IsFlac(f)
    /\ ~SkipsExisting(out, Mp3Path(f))
    /\ pending' = pending \ {f}
    /\ outDirs' = outDirs \cup {f.dir}
    /\ cur' = f
    /\ invoked' = invoked \cup {f}
    /\ bpc' = "ffmpeg"
    /\ UNCHANGED <<tree, ffmpegOk, out, res, skipped, succeeded, failed, berr>>
    /\ UNCHANGED <<lvars, rvars>>

\* subprocess.run cannot spawn the tool: FileNotFoundError, caught nowhere
ToolMissing ==
    /\ bpc = "ffmpeg"
    /\ ~ffmpegOk
    /\ bpc' = "crashed"
    /\ berr' = "FileNotFoundError"
    /\ UNCHANGED <<tree, ffmpegOk, pending, out, outDirs, cur, res, invoked,
                   skipped, succeeded, failed>>
    /\ UNCHANGED <<lvars, rvars>>

\* the tool exits 0, having written the target
ToolSucceeds ==
    /\ bpc = "ffmpeg"
    /\ ffmpegOk
    /\ out' = [out EXCEPT ![Mp3Path(cur)] = Mp3Of(cur)]
    /\ res' = [rc |-> 0, stderr |-> "utf8"]
    /\ bpc' = "returned"
    /\ UNCHANGED <<tree, ffmpegOk, pending, outDirs, cur, invoked, skipped,
                   succeeded, failed, berr>>
    /\ UNCHANGED <<lvars, rvars>>

\* the tool exits non-zero, with or without a partial target, its stderr
\* valid UTF-8 or not
ToolFails(partial, stderr) ==
    /\ bpc = "ffmpeg"
    /\ ffmpegOk
    /\ out' = [out EXCEPT ![Mp3Path(cur)] = IF partial THEN PartialOf(cur) ELSE Absent]
    /\ res' = [rc |-> 1, stderr |-> stderr]
    /\ failed' = failed \cup {cur}
    /\ bpc' = "returned"
    /\ UNCHANGED <<tree, ffmpegOk, pending, outDirs, cur, invoked, skipped,
                   succeeded, berr>>
    /\ UNCHANGED <<lvars, rvars>>

\* ffmpeg_convert, line 25: the success message
ConvertSucceeded ==
    /\ bpc = "returned"
    /\ res.rc = 0
    /\ succeeded' = succeeded \cup {cur}
    /\ bpc' = "walk"
    /\ UNCHANGED <<tree, ffmpegOk, pending, out, outDirs, cur, res, invoked,
                   skipped, failed, berr>>
    /\ UNCHANGED <<lvars, rvars>>

\* ffmpeg_convert, lines 28-29: the output tree after the cleanup of mp3_file
RemoveIfExists(fs, p) == [fs EXCEPT ![p] = Absent]

\* ffmpeg_convert, lines 26-29: the CalledProcessError handler.  The message
\* is formatted first; e.stderr.decode() raises UnicodeDecodeError on bytes
\* that are not UTF-8, and the removal is then never reached.
ConvertFailed ==
    /\ bpc = "returned"
    /\ res.rc # 0
    /\ IF Decodable(res.stderr)
       THEN /\ out' = RemoveIfExists(out, Mp3Path(cur))
            /\ bpc' = "walk"
            /\ berr' = berr
       ELSE /\ out' = out
            /\ bpc' = "crashed"
            /\ berr' = "UnicodeDecodeError"
    /\ UNCHANGED <<tree, ffmpegOk, pending, outDirs, cur, res, invoked,
                   skipped, succeeded, failed>>
    /\ UNCHANGED <<lvars, rvars>>

\* KeyboardInterrupt while subprocess.run waits for the tool, line 24: the
\* target may be partly written
InterruptTool(partial) ==
    /\ bpc = "ffmpeg"
    /\ ffmpegOk
    /\ out' = [out EXCEPT ![Mp3Path(cur)] = IF partial THEN PartialOf(cur) ELSE Absent]
    /\ bpc' = "interrupting"
    /\ UNCHANGED <<tree, ffmpegOk, pending, outDirs, cur, res, invoked,
                   skipped, succeeded, failed, berr>>
    /\ UNCHANGED <<lvars, rvars>>

\* KeyboardInterrupt after the tool returned, still inside the try block of
\* convert(), lines 54-55
InterruptAfter ==
    /\ bpc = "returned"
    /\ bpc' = "interrupting"
    /\ UNCHANGED <<tree, ffmpegOk, pending, out, outDirs, cur, res, invoked,
                   skipped, succeeded, failed, berr>>
    /\ UNCHANGED <<lvars, rvars>>

\* A handler that re-raises without deleting the incomplete file.
InterruptNoCleanup(fs, p) == fs

\* convert(), lines 58-59: the output tree after the KeyboardInterrupt
\* handler's cleanup of mp3_path
InterruptCleanup(fs, p) == [fs EXCEPT ![p] = Absent]

\* convert(), lines 56-60: delete the incomplete file, then re-raise
HandleInterrupt ==
    /\ bpc = "interrupting"
    /\ out' = InterruptCleanup(out, Mp3Path(cur))
    /\ bpc' = "interrupted"
    /\ berr' = "KeyboardInterrupt"
    /\ UNCHANGED <<tree, ffmpegOk, pending, outDirs, cur, res, invoked,
                   skipped, succeeded, failed>>
    /\ UNCHANGED <<lvars, rvars>>

\* os.walk is exhausted: convert() returns
ConvertEnd ==
    /\ bpc = "walk"
    /\ pending = {}
    /\ bpc' = "done"
    /\ UNCHANGED <<tree, ffmpegOk, pending, out, outDirs, cur, res, invoked,
                   skipped, succeeded, failed, berr>>
    /\ UNCHANGED <<lvars, rvars>>

BatchNext ==
    \/ ConvertBegin
    \/ \E f \in SourceFiles : WalkOther(f)
    \/ \E f \in SourceFiles : WalkSkip(f)
    \/ \E f \in SourceFiles : WalkConvert(f)
    \/ ToolMissing
    \/ ToolSucceeds
    \/ \E partial \in BOOLEAN, stderr \in {"utf8", "not utf8"} : ToolFails(partial, stderr)
    \/ ConvertSucceeded
    \/ ConvertFailed
    \/ \E partial \in BOOLEAN : InterruptTool(partial)
    \/ InterruptAfter
    \/ HandleInterrupt
    \/ ConvertEnd

SpecBatch == BatchInit /\ [][BatchNext]_vars

(***************************************************************************)
(* Claims about the batch converter                                        *)
(***************************************************************************)
\* No interrupt has arrived in this run.
NoInterrupt == bpc \notin {"interrupting", "interrupted"}

\* C2: without an interrupt, a non-zero exit of the tool on one file leaves
\* no output file at that file's target path (the path is empty, or holds
\* the output of a later file that was converted to it) and does not stop
\* the batch: the run does not end in an exception, and when it ends every
\* .flac file of the tree was either skipped because its target existed or
\* handed to the tool.
C2_FailureIsolated ==
    (failed # {} /\ NoInterrupt) =>
        /\ bpc # "crashed"
        /\ bpc \in {"walk", "done"} =>
              \A f \in failed :
                 \/ out[Mp3Path(f)] = Absent
                 \/ \E g \in succeeded : out[Mp3Path(f)] = Mp3Of(g)
        /\ bpc = "done" =>
              \A f \in tree : IsFlac(f) => f \in invoked \cup skipped

\* C3: when an interrupt arrives during the conversion of a file, the target
\* of that conversion is gone when the interrupt has propagated out of the
\* loop, the outputs of the files converted earlier in the run are still
\* there, no file that was still to come has been handed to the tool, and
\* nothing is invoked or written afterwards.
C3_InterruptCleansInFlight ==
    /\ [](bpc = "interrupted" =>
            /\ out[Mp3Path(cur)] = Absent
            /\ \A f \in succeeded : out[Mp3Path(f)] = Mp3Of(f)
            /\ pending \cap invoked = {})
    /\ [][bpc = "interrupted" => (invoked' = invoked /\ out' = out)]_vars

\* C3 witness: an interrupt ended a run in which an earlier file had been
\* converted and a later one was still to come.
C3_Witness ==
    /\ bpc = "interrupted"
    /\ succeeded # {}
    /\ \E f \in pending : IsFlac(f) /\ ~Exists(out, Mp3Path(f))

\* C4: a .flac file whose target exists when the loop reaches it is skipped:
\* the tool is never invoked for it, and from the moment it is skipped the
\* content at its target path never changes.
C4_ExistingTargetSkipped ==
    /\ [][\A f \in pending \ pending' :
            (IsFlac(f) /\ Exists(out, Mp3Path(f))) =>
                (f \in skipped' /\ f \notin invoked' /\ out' = out)]_vars
    /\ [](skipped \cap invoked = {})
    /\ [][\A f \in skipped' : out'[Mp3Path(f)] = out[Mp3Path(f)] /\ Exists(out, Mp3Path(f))]_vars

\* C4 witness: a file was skipped over a target left by an earlier run, and
\* the run went on to convert one file and to fail on another.
C4_Witness ==
    /\ bpc = "done"
    /\ \E f \in skipped : out[Mp3Path(f)] = Old
    /\ succeeded # {}
    /\ failed # {}

(***************************************************************************)
(* extract_clip_lossless.py                                                *)
(***************************************************************************)
\* if x: on an optional string
Truthy(x) == x # None /\ x # ""

\* _parse_time_to_seconds: plain seconds, MM:SS[.ms] or HH:MM:SS[.ms];
\* ok is FALSE where the code raises ValueError
_parse_time_to_seconds(value) ==
    LET s     == Strip(value)
        parts == Split(s, ":")
        bad   == [ok |-> FALSE, ms |-> 0]
    IN  IF PyFloat(s).ok THEN PyFloat(s)
        ELSE IF Len(parts) \notin {2, 3} THEN bad
        ELSE IF Len(parts) = 2
             THEN IF PyInt(parts[1]).ok /\ PyFloat(parts[2]).ok
                  THEN [ok |-> TRUE,
                        ms |-> PyInt(parts[1]).val * 60000 + PyFloat(parts[2]).ms]
                  ELSE bad
        ELSE IF PyInt(parts[1]).ok /\ PyInt(parts[2]).ok /\ PyFloat(parts[3]).ok
             THEN [ok |-> TRUE,
                   ms |-> PyInt(parts[1]).val * 3600000 + PyInt(parts[2]).val * 60000
                          + PyFloat(parts[3]).ms]
             ELSE bad

\* f"{n:02d}" for n >= 0
Pad2(n) == IF n < 10 THEN "0" \o ToString(n) ELSE ToString(n)

\* _format_seconds_as_time: int(seconds) drops the fraction
_format_seconds_as_time(ms) ==
    LET seconds == IF ms < 0 THEN 0 ELSE ms
        total   == seconds \div 1000
        hh      == total \div 3600
        mm      == (total % 3600) \div 60
        ss      == total % 60
    IN  Pad2(hh) \o ":" \o Pad2(mm) \o ":" \o Pad2(ss)

\* sanitize, inside _default_output_path
sanitize(x) ==
    Replace(Replace(Replace(Replace(Strip(x), ":", "-"), " ", ""), "/", "-"), "\\", "-")

\* Path.suffix of a file name: from its last dot, unless that dot leads
PathSuffix(name) == SubSeq(name, Len(SplitextRoot(name)) + 1, Len(name))

\* _default_output_path
_default_output_path(input, start, end, duration) ==
    LET tag    == IF Truthy(duration)
                  THEN sanitize(start) \o "_d" \o sanitize(duration)
                  ELSE sanitize(start) \o "_to_" \o sanitize(IF Truthy(end) THEN end ELSE "")
        suffix == IF PathSuffix(input) # "" THEN PathSuffix(input) ELSE ".mkv"
    IN  SplitextRoot(input) \o "_clip_" \o tag \o suffix

\* build_ffmpeg_command, lines 134-142: the trim; raised is TRUE where the
\* code raises ValueError
TrimArgs(start, end, duration) ==
    IF Truthy(duration) THEN [raised |-> FALSE, args |-> <<"-t", duration>>]
    ELSE IF Truthy(end)
         THEN IF ~_parse_time_to_seconds(end).ok \/ ~_parse_time_to_seconds(start).ok
              THEN [raised |-> TRUE, args |-> <<>>]
              ELSE LET clip_len == _parse_time_to_seconds(end).ms
                                   - _parse_time_to_seconds(start).ms
                   IN  IF clip_len <= 0
                       THEN [raised |-> TRUE, args |-> <<>>]
                       ELSE [raised |-> FALSE,
                             args |-> <<"-t", _format_seconds_as_time(clip_len)>>]
    ELSE [raised |-> FALSE, args |-> <<>>]

\* build_ffmpeg_command, lines 144-155: the stream mapping
MapArgs(map_all_streams, audio_index, audio_lang) ==
    IF map_all_streams THEN <<"-map", "0">>
    ELSE IF audio_index # None \/ audio_lang # None
         THEN <<"-map", "0:v:0">> \o
              (IF audio_index # None
               THEN <<"-map", "0:a:" \o ToString(PyInt(audio_index).val)>>
               ELSE <<"-map", "0:a:m:language:" \o audio_lang>>)
    ELSE <<>>

\* build_ffmpeg_command
build_ffmpeg_command(ffmpeg, input_file, start, end, duration, output_file, fast_seek, map_all_streams, audio_index, audio_lang, reset_timestamps) ==
    LET trim == TrimArgs(start, end, duration)
    IN  [raised |-> trim.raised,
         cmd |-> IF trim.raised THEN <<>>
                 ELSE <<ffmpeg, "-hide_banner">>
                      \o (IF fast_seek THEN <<"-ss", start>> ELSE <<>>)
                      \o <<"-fflags", "+genpts">>
                      \o <<"-i", input_file>>
                      \o (IF ~fast_seek THEN <<"-ss", start>> ELSE <<>>)
                      \o trim.args
                      \o MapArgs(map_all_streams, audio_index, audio_lang)
                      \o <<"-c", "copy">>
                      \o (IF reset_timestamps THEN <<"-reset_timestamps", "1">> ELSE <<>>)
                      \o <<"-avoid_negative_ts", "make_zero">>
                      \o <<"-y", output_file>>]

\* main, line 247
FastSeek(a) == ~a.accurate_seek

\* A main that takes map-all to be in effect only when --map-all is given.
MapAllOnlyWhenGiven(a) == a.map_all

\* main, lines 251-253: map-all is the default and overrides --main-only
MapAllStreams(a) == (~a.main_only) \/ a.map_all

\* parser.parse_args, line 223: -h or --help, here the first argument of the
\* command line: argparse prints the help and exits with code 0
ArgparseHelps(a) == a.help

\* parser.parse_args, line 223: what argparse itself refuses (exit code 2)
ArgparseRefuses(a) ==
    \/ a.input = None
    \/ a.start = None
    \/ a.end = None /\ a.duration = None
    \/ a.end # None /\ a.duration # None
    \/ a.audio_index # None /\ ~PyInt(a.audio_index).ok

\* main, lines 234-257: the message main prints before returning 2, "" when
\* it goes on to build the command
Rejection(a) ==
    IF a.fast_seek /\ a.accurate_seek THEN "Choose only one of --fast-seek or --accurate-seek."
    ELSE IF a.audio_index # None /\ PyInt(a.audio_index).val < 0
         THEN "--audio-index must be >= 0."
    ELSE IF a.audio_index # None /\ Truthy(a.audio_lang)
         THEN "Choose only one of --audio-index or --audio-lang."
    ELSE IF MapAllStreams(a) /\ (a.audio_index # None \/ Truthy(a.audio_lang))
         THEN "--audio-index/--audio-lang cannot be used with --map-all"
    ELSE ""

\* main, lines 230 and 259-271: the call of build_ffmpeg_command
BuiltCommand(a) ==
    build_ffmpeg_command("/usr/bin/ffmpeg", a.input, a.start, a.end, a.duration,
        IF Truthy(a.output) THEN a.output
        ELSE _default_output_path(a.input, a.start, a.end, a.duration),
        FastSeek(a), MapAllStreams(a), a.audio_index, a.audio_lang,
        ~a.keep_timestamps)

\* The command lines the model runs the script on.
StartArgs == {None, "10", "00:01:00", "abc"}
EndArgs == {None, "10.5", "00:01:30", "5", "1:2:3:4"}
DurationArgs == {None, "00:00:30", "abc"}
AudioIndexArgs == {None, "-1", "1", "x"}
AudioLangArgs == {None, "", "ita"}
ToolExitCodes == {0, 1, 187}

\* The largest number of things argparse refuses in one command line.
MaxDefects == 1

\* How many things argparse refuses in a command line.
Defects(a) ==
    Cardinality({ d \in {"input", "start", "neither", "both", "index"} :
        \/ d = "input" /\ a.input = None
        \/ d = "start" /\ a.start = None
        \/ d = "neither" /\ a.end = None /\ a.duration = None
        \/ d = "both" /\ a.end # None /\ a.duration # None
        \/ d = "index" /\ a.audio_index = "x" })

LosslessArgs ==
    { a \in [help : BOOLEAN, input : {None, "movie.mkv"}, start : StartArgs, end : EndArgs,
             duration : DurationArgs, output : {None, "clip.mkv"},
             fast_seek : BOOLEAN, accurate_seek : BOOLEAN,
             map_all : BOOLEAN, main_only : BOOLEAN,
             audio_index : AudioIndexArgs, audio_lang : AudioLangArgs,
             keep_timestamps : BOOLEAN] : Defects(a) <= MaxDefects }

\* The state when main() is entered.
LosslessInit ==
    /\ largs \in LosslessArgs
    /\ lpc = "argparse"
    /\ lcmd = <<>>
    /\ lspawned = FALSE
    /\ ltoolrc = 0
    /\ lexit = 0
    /\ lerr = ""
    /\ BatchIdle
    /\ ReencodeIdle

\* main returns or raises: the process exits
LExit(code, why) ==
    /\ lpc' = "exit"
    /\ lexit' = code
    /\ lerr' = why
    /\ UNCHANGED <<largs, lcmd, lspawned, ltoolrc>>
    /\ UNCHANGED <<bvars, rvars>>

LGoto(pc) ==
    /\ lpc' = pc
    /\ UNCHANGED <<largs, lcmd, lspawned, ltoolrc, lexit, lerr>>
    /\ UNCHANGED <<bvars, rvars>>

\* line 223: argparse prints the help
LArgparseHelp ==
    /\ lpc = "argparse"
    /\ ArgparseHelps(largs)
    /\ LExit(0, "help")

\* line 223: argparse refuses the command line
LArgparseError ==
    /\ lpc = "argparse"
    /\ ~ArgparseHelps(largs)
    /\ ArgparseRefuses(largs)
    /\ LExit(2, "argparse")

\* line 223: argparse accepts the command line
LArgparseOk ==
    /\ lpc = "argparse"
    /\ ~ArgparseHelps(largs)
    /\ ~ArgparseRefuses(largs)
    /\ LGoto("input")

\* lines 225-228: the input file does not exist
LInputMissing ==
    /\ lpc = "input"
    /\ LExit(2, "Input file not found")

\* lines 225-230: the input file exists
LInputFound ==
    /\ lpc = "input"
    /\ LGoto("which")

\* lines 232 and 72-77: ffmpeg is not in PATH, SystemExit(2)
LToolMissing ==
    /\ lpc = "which"
    /\ LExit(2, "ffmpeg not found in PATH")

\* line 232: ffmpeg is in PATH
LToolFound ==
    /\ lpc = "which"
    /\ LGoto("validate")

\* lines 234-257: main refuses the request
LReject ==
    /\ lpc = "validate"
    /\ Rejection(largs) # ""
    /\ LExit(2, Rejection(largs))

\* lines 234-257: main accepts the request
LAccept ==
    /\ lpc = "validate"
    /\ Rejection(largs) = ""
    /\ LGoto("build")

\* lines 259-271: build_ffmpeg_command raises ValueError, which nothing
\* catches: a traceback and exit code 1
LBuildRaises ==
    /\ lpc = "build"
    /\ BuiltCommand(largs).raised
    /\ LExit(1, "ValueError")

\* lines 259-274: the command is built and printed
LBuild ==
    /\ lpc = "build"
    /\ ~BuiltCommand(largs).raised
    /\ lcmd' = BuiltCommand(largs).cmd
    /\ lpc' = "run"
    /\ UNCHANGED <<largs, lspawned, ltoolrc, lexit, lerr>>
    /\ UNCHANGED <<bvars, rvars>>

\* lines 276-281: the tool runs, and its return code is the exit code
LRun(rc) ==
    /\ lpc = "run"
    /\ lspawned' = TRUE
    /\ ltoolrc' = rc
    /\ lexit' = rc
    /\ lpc' = "exit"
    /\ UNCHANGED <<largs, lcmd, lerr>>
    /\ UNCHANGED <<bvars, rvars>>

LosslessNext ==
    \/ LArgparseHelp
    \/ LArgparseError
    \/ LArgparseOk
    \/ LInputMissing
    \/ LInputFound
    \/ LToolMissing
    \/ LToolFound
    \/ LReject
    \/ LAccept
    \/ LBuildRaises
    \/ LBuild
    \/ \E rc \in ToolExitCodes : LRun(rc)

SpecLossless == LosslessInit /\ [][LosslessNext]_vars

(***************************************************************************)
(* Claims about the lossless extractor                                     *)
(***************************************************************************)
\* Whether the command holds the flag.
HasFlag(cmd, flag) == \E i \in 1..Len(cmd) : cmd[i] = flag

\* The argument that follows the first occurrence of the flag.
FlagValue(cmd, flag) ==
    cmd[1 + CHOOSE i \in 1..Len(cmd) : cmd[i] = flag /\ \A j \in 1..(i - 1) : cmd[j] # flag]

\* The command has been built.
LBuilt == lpc \in {"run", "exit"} /\ lcmd # <<>>

\* The request names an end time after its start time, both in an accepted
\* format, and no duration.
EndAfterStart(a) ==
    /\ ~Truthy(a.duration)
    /\ Truthy(a.end)
    /\ a.start # None
    /\ _parse_time_to_seconds(a.start).ok
    /\ _parse_time_to_seconds(a.end).ok
    /\ _parse_time_to_seconds(a.end).ms > _parse_time_to_seconds(a.start).ms

\* C1: for a start and an end time in an accepted format with end > start
\* and no duration, the built command holds a -t flag whose value denotes
\* exactly end - start seconds, fraction included, and no -to flag, in
\* fast-seek and in accurate-seek mode.
C1_TrimIsEndMinusStart ==
    (LBuilt /\ EndAfterStart(largs)) =>
        /\ HasFlag(lcmd, "-t")
        /\ ~HasFlag(lcmd, "-to")
        /\ _parse_time_to_seconds(FlagValue(lcmd, "-t")).ok
        /\ _parse_time_to_seconds(FlagValue(lcmd, "-t")).ms
             = _parse_time_to_seconds(largs.end).ms - _parse_time_to_seconds(largs.start).ms

\* A usage error in the times of a request with start s, end e and duration
\* d: a required one is missing, a given one is in no accepted format, or
\* end - start is not positive.
TimeUsageError(s, e, d) ==
    \/ s = None
    \/ e = None /\ d = None
    \/ ~_parse_time_to_seconds(s).ok
    \/ e # None /\ ~_parse_time_to_seconds(e).ok
    \/ d # None /\ ~_parse_time_to_seconds(d).ok
    \/ /\ e # None
       /\ d = None
       /\ _parse_time_to_seconds(e).ok
       /\ _parse_time_to_seconds(s).ok
       /\ _parse_time_to_seconds(e).ms - _parse_time_to_seconds(s).ms <= 0

\* C5: in both extractors every usage error (a missing required argument,
\* conflicting flags, a start, end or duration in no accepted time format, a
\* non-positive end - start) ends the run with exit code 2 and without
\* spawning the transcode subprocess, whether the trim is an end time or a
\* duration.  (Command lines that ask for the help are left aside.)
C5_UsageErrorExits2 ==
    /\ (lpc = "exit" /\ ~largs.help
                     /\ (\/ largs.input = None
                         \/ largs.end # None /\ largs.duration # None
                         \/ largs.fast_seek /\ largs.accurate_seek
                         \/ TimeUsageError(largs.start, largs.end, largs.duration))) =>
          (lexit = 2 /\ ~lspawned)
    /\ (rpc = "exit" /\ (\/ argv = <<>>
                         \/ TimeUsageError(ropts.start_time, ropts.end_time, ropts.duration))) =>
          (rexit = 2 /\ ~rspawned)

\* The request selects an audio track by index or by a language tag.
SelectsAudio(a) == a.audio_index # None \/ Truthy(a.audio_lang)

\* The request selects an audio track while map-all is in effect, explicitly
\* or by default, or selects one by index and by language tag.
AudioConflict(a) ==
    \/ SelectsAudio(a) /\ (a.map_all \/ ~a.main_only)
    \/ a.audio_index # None /\ Truthy(a.audio_lang)

\* No command holds -map 0 together with an explicit -map 0:a:... mapping.
NoMixedMapping(cmd) ==
    ~(/\ \E i \in 1..(Len(cmd) - 1) : cmd[i] = "-map" /\ cmd[i + 1] = "0"
      /\ \E i \in 1..(Len(cmd) - 1) : cmd[i] = "-map" /\ StartsWith(cmd[i + 1], "0:a:"))

\* C9 as stated: a request that selects an audio track while map-all is in
\* effect, that combines --audio-index with --audio-lang, or that combines
\* --map-all with --main-only is rejected with exit code 2 before any
\* subprocess is spawned, and no command mixes -map 0 with -map 0:a:...
\* (Command lines that ask for the help are left aside.)
C9_MappingModesExclusive ==
    /\ (lpc = "exit" /\ ~largs.help
                     /\ (AudioConflict(largs) \/ (largs.map_all /\ largs.main_only))) =>
          (lexit = 2 /\ ~lspawned)
    /\ LBuilt => NoMixedMapping(lcmd)

\* C9 as amended: a request, other than one for the help, that selects an
\* audio track (--audio-index, or --audio-lang with a non-empty tag) while
\* map-all is in effect, or that combines --audio-index with a non-empty
\* --audio-lang, is rejected with exit code 2 before any subprocess is
\* spawned; --map-all with --main-only is accepted, map-all winning (the
\* command holds -map 0); and no command mixes -map 0 with -map 0:a:...
C9_MappingModesAmended ==
    /\ (lpc = "exit" /\ ~largs.help /\ AudioConflict(largs)) => (lexit = 2 /\ ~lspawned)
    /\ (LBuilt /\ largs.map_all /\ largs.main_only) =>
          \E i \in 1..(Len(lcmd) - 1) : lcmd[i] = "-map" /\ lcmd[i + 1] = "0"
    /\ LBuilt => NoMixedMapping(lcmd)

\* C9 witness: main itself refused an audio track selected under the default
\* map-all, and the run ended with exit code 2 and nothing spawned.
C9_Witness ==
    /\ lpc = "exit"
    /\ lerr = "--audio-index/--audio-lang cannot be used with --map-all"
    /\ ~largs.map_all
    /\ largs.audio_index = "1"
    /\ lexit = 2
    /\ ~lspawned

(***************************************************************************)
(* extract_clip_h264_aac_sdr.py                                            *)
(***************************************************************************)
\* The largest number of lines in the probe's output.
MaxLines == 6

VIDEO_ENCODING == <<"-c:v", "libx264", "-preset", "veryfast", "-crf", "18", "-pix_fmt", "yuv420p">>
AUDIO_ENCODING == <<"-c:a", "aac", "-b:a", "192k">>
HDR_TONEMAPPING == "zscale=t=linear:npl=100,format=gbrpf32le,zscale=p=bt709,tonemap=tonemap=mobius:desat=2,zscale=t=bt709:m=bt709:r=tv,format=yuv420p"

\* A dict: a function from its keys.  The empty dict.
EmptyDict == [k \in {} |-> ""]

\* d[key] = value
DictSet(d, key, value) == (key :> value) @@ d

\* key in d
HasKey(d, key) == key \in DOMAIN d

\* split_streams, lines 33-42, one line of the loop.  in_stream and
\* current_block are unbound until a marker binds them; reading an unbound
\* local raises UnboundLocalError.
ScanLine(st, line) ==
    IF st.raised THEN st
    ELSE IF Strip(line) = "[STREAM]"
         THEN [st EXCEPT !.in_stream = "True", !.bound = TRUE, !.current_block = <<>>]
    ELSE IF Strip(line) = "[/STREAM]"
         THEN IF ~st.bound
              THEN [st EXCEPT !.in_stream = "False", !.raised = TRUE]
              ELSE IF st.current_block # <<>>
                   THEN [st EXCEPT !.in_stream = "False",
                                   !.stream_blocks = Append(@, st.current_block)]
                   ELSE [st EXCEPT !.in_stream = "False"]
    ELSE IF st.in_stream = "unbound" THEN [st EXCEPT !.raised = TRUE]
    ELSE IF st.in_stream = "True" /\ Contains(line, "=")
         THEN [st EXCEPT !.current_block = Append(@, Strip(line))]
    ELSE st

RECURSIVE ScanLines(_, _)
ScanLines(st, lines) ==
    IF lines = <<>> THEN st ELSE ScanLines(ScanLine(st, Head(lines)), Tail(lines))

\* split_streams, lines 46-50: one block as a dict; a later line with the
\* same key overrides an earlier one
RECURSIVE BlockDict(_)
BlockDict(block) ==
    IF block = <<>> THEN EmptyDict
    ELSE LET line == block[Len(block)]
             eq   == Find(line, "=")
         IN  IF eq = 0 THEN BlockDict(SubSeq(block, 1, Len(block) - 1))
             ELSE DictSet(BlockDict(SubSeq(block, 1, Len(block) - 1)),
                          SubSeq(line, 1, eq - 1), SubSeq(line, eq + 1, Len(line)))

\* split_streams on the lines of file_info; raised is TRUE where the code
\* raises UnboundLocalError
split_streams(lines) ==
    LET st == ScanLines([in_stream |-> "unbound", bound |-> FALSE,
                         current_block |-> <<>>, stream_blocks |-> <<>>,
                         raised |-> FALSE], lines)
    IN  [raised |-> st.raised,
         streams |-> IF st.raised THEN <<>>
                     ELSE [i \in 1..Len(st.stream_blocks) |-> BlockDict(st.stream_blocks[i])]]

\* main, lines 135-139: the search for the video stream.  video_stream is
\* <<>> for None and <<stream>> for a stream; raised is TRUE where
\* stream["codec_type"] raises KeyError.
RECURSIVE FindVideo(_)
FindVideo(ss) ==
    IF ss = <<>> THEN [raised |-> FALSE, video_stream |-> <<>>]
    ELSE IF ~HasKey(Head(ss), "codec_type") THEN [raised |-> TRUE, video_stream |-> <<>>]
    ELSE IF Head(ss)["codec_type"] = "video"
         THEN [raised |-> FALSE, video_stream |-> <<Head(ss)>>]
    ELSE FindVideo(Tail(ss))

\* is_hdr: subscripting None raises TypeError, a missing key KeyError; `and`
\* does not look at color_primaries when color_space has no "bt2020"
is_hdr(vs) ==
    IF vs = <<>> THEN [raised |-> "TypeError", val |-> FALSE]
    ELSE LET d == vs[1]
         IN  IF ~HasKey(d, "color_space") THEN [raised |-> "KeyError", val |-> FALSE]
             ELSE IF ~Contains(d["color_space"], "bt2020") THEN [raised |-> "", val |-> FALSE]
             ELSE IF ~HasKey(d, "color_primaries") THEN [raised |-> "KeyError", val |-> FALSE]
             ELSE [raised |-> "", val |-> Contains(d["color_primaries"], "bt2020")]

\* run_ffmpeg, lines 67-88: the command
ReencodeCommand(ffmpeg, filename, start_time, duration, end_time, isHdr, output_file) ==
    <<ffmpeg>>
    \o (IF Truthy(start_time) THEN <<"-ss", start_time>> ELSE <<>>)
    \o <<"-i", filename>>
    \o (IF Truthy(duration) THEN <<"-t", duration>>
        ELSE IF Truthy(end_time) THEN <<"-to", end_time>> ELSE <<>>)
    \o (IF isHdr THEN <<"-vf", HDR_TONEMAPPING>> ELSE <<>>)
    \o VIDEO_ENCODING
    \o AUDIO_ENCODING
    \o <<IF Truthy(output_file) THEN output_file ELSE "output.mp4">>

IsOpt(av, j, names) == av[j] \in names /\ j + 1 <= Len(av)

\* main, lines 110-125: the option loop; j is the index into argv, from 1
RECURSIVE ParseArgv(_, _, _)
ParseArgv(av, j, o) ==
    IF j > Len(av) THEN o
    ELSE IF IsOpt(av, j, {"-s", "--start"})
         THEN ParseArgv(av, j + 2, [o EXCEPT !.start_time = av[j + 1]])
    ELSE IF IsOpt(av, j, {"-e", "--end"})
         THEN ParseArgv(av, j + 2, [o EXCEPT !.end_time = av[j + 1]])
    ELSE IF IsOpt(av, j, {"-d", "--duration"})
         THEN ParseArgv(av, j + 2, [o EXCEPT !.duration = av[j + 1]])
    ELSE IF IsOpt(av, j, {"-o", "--output"})
         THEN ParseArgv(av, j + 2, [o EXCEPT !.output_file = av[j + 1]])
    ELSE ParseArgv(av, j + 1, o)

NoOpts == [start_time |-> None, end_time |-> None, duration |-> None, output_file |-> None]

\* The exit code of the process when main() returns: line 147 calls main()
\* and drops what it returns.
ExitCodeOnReturn(returned) == 0

\* The exit code of the process when main() raises.
ExitCodeOnRaise == 1

\* The command lines and probe outputs the model runs the script on.
ReencodeArgvs ==
    { <<>>,
      <<"movie.mkv">>,
      <<"movie.mkv", "-s">>,
      <<"movie.mkv", "-e", "20">>,
      <<"movie.mkv", "-s", "10", "-e", "20">>,
      <<"movie.mkv", "-s", "abc", "-e", "1:2:3:4">>,
      <<"movie.mkv", "-s", "20", "-e", "10">>,
      <<"movie.mkv", "--start", "10", "-d", "5", "-e", "20", "-o", "clip.mp4">> }

ProbeLines ==
    { "[STREAM]", "[/STREAM]", "codec_type=video", "codec_type=audio",
      "color_space=bt2020nc", "color_space=bt709", "color_primaries=bt2020", "index" }

ProbeTexts == UNION { [1..n -> ProbeLines] : n \in 0..MaxLines }

NoInfo == [found |-> FALSE, lines |-> <<>>]

\* The state when main() is entered.
ReencodeInit ==
    /\ argv \in ReencodeArgvs
    /\ rpc = "args"
    /\ ropts = NoOpts
    /\ file_info = NoInfo
    /\ streams = <<>>
    /\ video_stream = <<>>
    /\ hdrCalled = FALSE
    /\ hdr = FALSE
    /\ rcmd = <<>>
    /\ rspawned = FALSE
    /\ rtoolrc = 0
    /\ rexit = 0
    /\ rerr = ""
    /\ BatchIdle
    /\ LosslessIdle

\* lines 100-102 and 127-129: main prints a usage message and returns 2
RUsageError ==
    /\ rpc = "args"
    /\ LET o == IF argv = <<>> THEN NoOpts ELSE ParseArgv(argv, 2, NoOpts)
       IN  /\ argv = <<>> \/ o.start_time = None
              \/ (o.end_time = None /\ o.duration = None)
           /\ ropts' = o
    /\ rpc' = "exit"
    /\ rexit' = ExitCodeOnReturn(2)
    /\ rerr' = "usage"
    /\ UNCHANGED <<argv, file_info, streams, video_stream, hdrCalled, hdr, rcmd, rspawned, rtoolrc>>
    /\ UNCHANGED <<bvars, lvars>>

\* lines 104-129: the options are there
RArgsOk ==
    /\ rpc = "args"
    /\ argv # <<>>
    /\ LET o == ParseArgv(argv, 2, NoOpts)
       IN  /\ o.start_time # None
           /\ o.end_time # None \/ o.duration # None
           /\ ropts' = o
    /\ rpc' = "probe"
    /\ UNCHANGED <<argv, file_info, streams, video_stream, hdrCalled, hdr, rcmd, rspawned, rtoolrc,
                   rexit, rerr>>
    /\ UNCHANGED <<bvars, lvars>>

\* get_file_info, lines 18-21, and line 132: ffprobe is not in PATH,
\* get_file_info returns the integer 2, and split_streams raises
\* AttributeError on it
RProbeMissing ==
    /\ rpc = "probe"
    /\ rpc' = "exit"
    /\ rexit' = ExitCodeOnRaise
    /\ rerr' = "AttributeError"
    /\ UNCHANGED <<argv, ropts, file_info, streams, video_stream, hdrCalled, hdr, rcmd, rspawned, rtoolrc>>
    /\ UNCHANGED <<bvars, lvars>>

\* get_file_info, lines 23-27: ffprobe's standard output
RProbe ==
    /\ rpc = "probe"
    /\ \E lines \in ProbeTexts : file_info' = [found |-> TRUE, lines |-> lines]
    /\ rpc' = "parse"
    /\ UNCHANGED <<argv, ropts, streams, video_stream, hdrCalled, hdr, rcmd, rspawned, rtoolrc, rexit, rerr>>
    /\ UNCHANGED <<bvars, lvars>>

\* line 132: split_streams raises
RSplitRaises ==
    /\ rpc = "parse"
    /\ split_streams(file_info.lines).raised
    /\ rpc' = "exit"
    /\ rexit' = ExitCodeOnRaise
    /\ rerr' = "UnboundLocalError"
    /\ UNCHANGED <<argv, ropts, file_info, streams, video_stream, hdrCalled, hdr, rcmd, rspawned, rtoolrc>>
    /\ UNCHANGED <<bvars, lvars>>

\* lines 132-139: the search for the video stream raises KeyError
RSelectRaises ==
    /\ rpc = "parse"
    /\ ~split_streams(file_info.lines).raised
    /\ FindVideo(split_streams(file_info.lines).streams).raised
    /\ streams' = split_streams(file_info.lines).streams
    /\ rpc' = "exit"
    /\ rexit' = ExitCodeOnRaise
    /\ rerr' = "KeyError: codec_type"
    /\ UNCHANGED <<argv, ropts, file_info, video_stream, hdrCalled, hdr, rcmd, rspawned, rtoolrc>>
    /\ UNCHANGED <<bvars, lvars>>

\* lines 132-141: is_hdr is called with what the search left in video_stream
RClassify ==
    /\ rpc = "parse"
    /\ ~split_streams(file_info.lines).raised
    /\ ~FindVideo(split_streams(file_info.lines).streams).raised
    /\ streams' = split_streams(file_info.lines).streams
    /\ LET vs == FindVideo(split_streams(file_info.lines).streams).video_stream
       IN  /\ video_stream' = vs
           /\ hdrCalled' = TRUE
           /\ hdr' = is_hdr(vs).val
           /\ IF is_hdr(vs).raised = ""
              THEN /\ rpc' = "ffmpeg"
                   /\ UNCHANGED <<rexit, rerr>>
              ELSE /\ rpc' = "exit"
                   /\ rexit' = ExitCodeOnRaise
                   /\ rerr' = is_hdr(vs).raised
    /\ UNCHANGED <<argv, ropts, file_info, rcmd, rspawned, rtoolrc>>
    /\ UNCHANGED <<bvars, lvars>>

\* run_ffmpeg, lines 62-65, and line 143: ffmpeg is not in PATH; run_ffmpeg
\* returns 2, which main drops
RToolMissing ==
    /\ rpc = "ffmpeg"
    /\ rpc' = "exit"
    /\ rexit' = ExitCodeOnReturn(2)
    /\ rerr' = "ffmpeg not found in PATH"
    /\ UNCHANGED <<argv, ropts, file_info, streams, video_stream, hdrCalled, hdr, rcmd, rspawned, rtoolrc>>
    /\ UNCHANGED <<bvars, lvars>>

\* run_ffmpeg, lines 67-94, and line 143: the tool runs; run_ffmpeg returns
\* its return code, which main drops
RRun(rc) ==
    /\ rpc = "ffmpeg"
    /\ rcmd' = ReencodeCommand("/usr/bin/ffmpeg", argv[1], ropts.start_time,
                               ropts.duration, ropts.end_time, hdr, ropts.output_file)
    /\ rspawned' = TRUE
    /\ rtoolrc' = rc
    /\ rpc' = "exit"
    /\ rexit' = ExitCodeOnReturn(rc)
    /\ UNCHANGED <<argv, ropts, file_info, streams, video_stream, hdrCalled, hdr, rerr>>
    /\ UNCHANGED <<bvars, lvars>>

ReencodeNext ==
    \/ RUsageError
    \/ RArgsOk
    \/ RProbeMissing
    \/ RProbe
    \/ RSplitRaises
    \/ RSelectRaises
    \/ RClassify
    \/ RToolMissing
    \/ \E rc \in ToolExitCodes : RRun(rc)

SpecReencode == ReencodeInit /\ [][ReencodeNext]_vars

(***************************************************************************)
(* Claims about the re-encoding extractor                                  *)
(***************************************************************************)
\* C6: whenever the transcode tool is invoked, the script's exit code is the
\* tool's exit code, and when the tool executable cannot be located the
\* script exits with code 2, in both extractors.
C6_ExitCodeForwarded ==
    /\ (rpc = "exit" /\ rspawned) => rexit = rtoolrc
    /\ (rpc = "exit" /\ rerr = "ffmpeg not found in PATH") => rexit = 2
    /\ (lpc = "exit" /\ lspawned) => lexit = ltoolrc
    /\ (lpc = "exit" /\ lerr = "ffmpeg not found in PATH") => lexit = 2

\* split_streams has returned its list.
StreamsParsed ==
    /\ rpc \in {"ffmpeg", "exit"}
    /\ file_info.found
    /\ rerr # "UnboundLocalError"

\* The positions of the descriptors whose codec_type is "video".
VideoAt(ss) ==
    { i \in 1..Len(ss) : HasKey(ss[i], "codec_type") /\ ss[i]["codec_type"] = "video" }

\* The smallest member of a non-empty set of numbers.
Least(S) == CHOOSE i \in S : \A j \in S : i <= j

\* C7: the first descriptor whose codec_type is "video" is the one handed to
\* HDR classification; when no descriptor has codec_type "video", the run
\* never reaches HDR classification or command construction.
C7_VideoStreamOrError ==
    StreamsParsed =>
        IF VideoAt(streams) # {}
        THEN hdrCalled /\ video_stream = <<streams[Least(VideoAt(streams))]>>
        ELSE ~hdrCalled /\ rcmd = <<>>

\* The color attribute is there and contains "bt2020".
IsBt2020(d, key) == HasKey(d, key) /\ Contains(d[key], "bt2020")

\* C8: for every video stream descriptor, with or without color_space and
\* color_primaries, HDR detection returns without raising, TRUE exactly when
\* both attributes are there and contain "bt2020".
C8_HdrTotal ==
    (hdrCalled /\ video_stream # <<>>) =>
        /\ rerr # "KeyError"
        /\ hdr = (IsBt2020(video_stream[1], "color_space")
                  /\ IsBt2020(video_stream[1], "color_primaries"))

\* The blocks of a probe text as the claim reads it: a block opens at
\* [STREAM], takes the key=value lines up to [/STREAM], and counts once it is
\* closed; a block that is never closed counts for nothing.
ClosedBlocksStep(st, line) ==
    IF Strip(line) = "[STREAM]" THEN [st EXCEPT !.open = TRUE, !.block = <<>>]
    ELSE IF Strip(line) = "[/STREAM]"
         THEN IF st.open
              THEN [st EXCEPT !.open = FALSE, !.done = Append(@, st.block)]
              ELSE st
    ELSE IF st.open /\ Contains(line, "=")
         THEN [st EXCEPT !.block = Append(@, Strip(line))]
    ELSE st

RECURSIVE ClosedBlocksScan(_, _)
ClosedBlocksScan(st, lines) ==
    IF lines = <<>> THEN st.done
    ELSE ClosedBlocksScan(ClosedBlocksStep(st, Head(lines)), Tail(lines))

ClosedBlocks(lines) ==
    ClosedBlocksScan([open |-> FALSE, block |-> <<>>, done |-> <<>>], lines)

\* C10: for every probe text the parser returns, without raising, exactly one
\* descriptor per properly closed block, in input order, each holding that
\* block's key/value pairs.
C10_ParserTotal ==
    (rpc \in {"ffmpeg", "exit"} /\ file_info.found) =>
        /\ rerr # "UnboundLocalError"
        /\ Len(streams) = Len(ClosedBlocks(file_info.lines))
        /\ \A i \in 1..Len(streams) :
              streams[i] = BlockDict(ClosedBlocks(file_info.lines)[i])

(***************************************************************************)
(* The three utilities together: one of them runs.                         *)
(***************************************************************************)
Init == BatchInit \/ LosslessInit \/ ReencodeInit

Next == BatchNext \/ LosslessNext \/ ReencodeNext

Spec == Init /\ [][Next]_vars

====
